---- MODULE Spec2Model ----
(***************************************************************************)
(* Model of src/classify.py: the ECG preprocessing functions (extend_ts,   *)
(* scaling, shift, transform, insert_ones), the ECGDataset adapter, the    *)
(* loader get_preloaded_data and the driver's train/validation/test split. *)
(*                                                                         *)
(* Numbers.  A sample value is a pair <<w, m>> standing for w + m/1000:    *)
(* w is the whole part as read from the recording, m the thousandths that  *)
(* shift adds (offset / 1000, line 41).  Arrays are sequences of rows and  *)
(* are 1-indexed here; index i of the code is position i + 1.              *)
(*                                                                         *)
(* Memory.  An array value is a record [data, mem, transposed]: mem names  *)
(* the block of memory that holds it, either a key of the preloaded store  *)
(* or "new" for a block allocated during the call, and transposed says     *)
(* that the array is a .T view of that block.  An in-place write goes to   *)
(* mem.                                                                    *)
(***************************************************************************)
EXTENDS Integers, Sequences, FiniteSets

VARIABLES
    metadata,        \* ECGDataset.metadata: sequence of metadata entries
    preloaded_data,  \* ECGDataset.preloaded_data: path -> raw signal
    trainMode,       \* whether the attached transform is invoked with train=True
    result,          \* outcome of the last __len__ / __getitem__ call
    constructed,     \* history: the arguments the datasets were constructed with
    ts,              \* extend_ts: argument ts
    length,          \* extend_ts: argument length
    extended,        \* extend_ts: outcome
    y,               \* insert_ones: the label vector (written in place)
    end_step_x,      \* insert_ones: argument end_step_x
    y_out,           \* insert_ones: outcome
    metadata_json,   \* get_preloaded_data: values of the metadata mapping, in order
    limit,           \* get_preloaded_data: argument limit
    loaded,          \* get_preloaded_data: outcome
    pc,              \* driver position in __main__ (lines 262-266)
    train_aug,       \* driver: indices of the training subset
    val,             \* driver: indices of the validation subset
    test             \* driver: indices of the test subset

vars == <<metadata, preloaded_data, trainMode, result, constructed,
          ts, length, extended, y, end_step_x, y_out,
          metadata_json, limit, loaded, pc, train_aug, val, test>>

datasetVars == <<metadata, preloaded_data, trainMode, result, constructed>>
extendVars  == <<ts, length, extended>>
insertVars  == <<y, end_step_x, y_out>>
loadVars    == <<metadata_json, limit, loaded>>
splitVars   == <<pc, train_aug, val, test>>

None == [op |-> "none"]

(***************************************************************************)
(* Bounds of the model.  FixedLen, sampto and DefaultInterval stand for    *)
(* the literals 15000 (line 67), 50000 (line 217) and 20 (line 38), scaled *)
(* down so that the arrays can be enumerated.                              *)
(***************************************************************************)
FixedLen == 2
sampto == 3
DefaultInterval == 1
MaxEntries == 2
MaxTargetLen == 2
MaxSamples == 3
MaxTy == 3
MaxRecords == 3
MaxItems == 5

\* Program constants.
Channels == 2
F32Mantissa == 24
LabelSteps == 1000
InputSteps == 15000
ExcludedClass == 2

(***************************************************************************)
(* Numbers                                                                 *)
(***************************************************************************)
Abs(a) == IF a < 0 THEN -a ELSE a

Val(w) == <<w, 0>>
Zero == Val(0)

\* Spacing of the float32 grid at magnitude a (a >= 0): 1 below 2^24.
RECURSIVE Ulp(_)
Ulp(a) == IF a < 2^F32Mantissa THEN 1 ELSE 2 * Ulp(a \div 2)

\* Round a whole number to the nearest float32, ties to the even significand.
RoundF32(w) ==
    LET a == Abs(w)
        u == Ulp(a)
        q == a \div u
        r == a % u
        n == IF 2 * r < u THEN q * u
             ELSE IF 2 * r > u THEN (q + 1) * u
             ELSE IF q % 2 = 0 THEN q * u ELSE (q + 1) * u
    IN  IF w < 0 THEN -n ELSE n

\* int(num / den) for den > 0: Python's int() truncates toward zero.
int_trunc(num, den) ==
    IF num >= 0 THEN num \div den ELSE -((-num) \div den)

Min(a, b) == IF a <= b THEN a ELSE b

(***************************************************************************)
(* Arrays                                                                  *)
(***************************************************************************)
Arr(data, mem, transposed) == [data |-> data, mem |-> mem, transposed |-> transposed]

\* shape[1] of a two-dimensional array with at least one row.
NCols(m) == IF Len(m) = 0 THEN 0 ELSE Len(m[1])

\* np.zeros((n, c))
np_zeros(n, c) == [i \in 1..n |-> [j \in 1..c |-> Zero]]

\* m.T for an array of Channels columns: Channels rows of Len(m) columns.
Transpose(m) == [c \in 1..Channels |-> [t \in 1..Len(m) |-> m[t][c]]]

\* The array a transposed view is a view of.
Untranspose(d) == [t \in 1..NCols(d) |-> [c \in 1..Len(d) |-> d[c][t]]]

\* x.astype('float32') of one value read from a recording (m = 0).
astype_float32(x) == <<RoundF32(x[1]), x[2]>>

(***************************************************************************)
(* extend_ts (lines 110-114)                                               *)
(***************************************************************************)
extend_ts_shifted(sig, len) ==
    LET siglength == Min(len, Len(sig))
    IN  [i \in 1..len |->
            IF i > len - siglength THEN sig[i - (len - siglength)]
            ELSE np_zeros(1, Channels)[1]]

extend_ts(sig, len) ==
    LET zeros     == np_zeros(len, Channels)
        siglength == Min(len, Len(sig))
    IN  [i \in 1..len |-> IF i <= siglength THEN sig[i] ELSE zeros[i]]

(***************************************************************************)
(* scaling, shift, transform (lines 32-49).  The values drawn from         *)
(* np.random are arguments: the caller chooses them.                       *)
(***************************************************************************)
\* Samples of np.random.randn(), in tenths: 0.5 (not above the threshold) and 0.6.
RandnSamples == {5, 6}
\* Samples of np.random.normal(1.0, sigma): whole factors.
NormalSamples == {1, 2}

\* X * myNoise: column j of X times scalingFactor[j]; the product is a new
\* array.
scaling(X, scalingFactor) ==
    Arr([i \in 1..Len(X.data) |->
            [j \in 1..NCols(X.data) |->
                <<X.data[i][j][1] * scalingFactor[j],
                  X.data[i][j][2] * scalingFactor[j]>>]],
        "new", FALSE)

\* sig[:, col] += offset / 1000 for each col in range(sig.shape[1]), in place:
\* the result is the argument's own block of memory.  The sum is kept exact
\* (the rounding of a float32 sum is below a thousandth).
shift(sig, offsets) ==
    Arr([i \in 1..Len(sig.data) |->
            [j \in 1..NCols(sig.data) |->
                <<sig.data[i][j][1], sig.data[i][j][2] + offsets[j]>>]],
        sig.mem, sig.transposed)

\* The vectors of n drawn values enumerated: one value at the odd columns and
\* one at the even columns (every vector when n <= 2).
Alternating(S, n) ==
    { [j \in 1..n |-> IF j % 2 = 1 THEN a ELSE b] : a \in S, b \in S }

\* np.random.choice(range(-interval, interval)), once per column (line 40).
ShiftDraws(sig, interval) ==
    Alternating((-interval)..(interval - 1), NCols(sig.data))

\* np.random.normal(loc=1.0, scale=sigma, size=(1, X.shape[1])) (line 33).
ScalingDraws(X) == Alternating(NormalSamples, NCols(X.data))

\* One run of transform(sig, train) with the drawn values r1, f, r2, o.
transform_run(sig, train, r1, f, r2, o) ==
    IF ~train
    THEN [arr |-> sig, draws |-> 0, scaled |-> FALSE, shifted |-> FALSE,
          offsets |-> <<>>]
    ELSE LET doScale == r1 > 5
             doShift == r2 > 5
             s1 == IF doScale THEN scaling(sig, f) ELSE sig
             s2 == IF doShift THEN shift(s1, o) ELSE s1
         IN  [arr |-> s2,
              draws |-> 2 + (IF doScale THEN 1 ELSE 0)
                         + (IF doShift THEN NCols(s1.data) ELSE 0),
              scaled |-> doScale, shifted |-> doShift,
              offsets |-> IF doShift THEN o ELSE <<>>]

\* Every outcome of transform(sig, train).
transform(sig, train) ==
    IF ~train
    THEN {transform_run(sig, train, 5, <<>>, 5, <<>>)}
    ELSE {transform_run(sig, train, r1, f, r2, o) :
            r1 \in RandnSamples, f \in ScalingDraws(sig),
            r2 \in RandnSamples, o \in ShiftDraws(sig, DefaultInterval)}

transform_default_train_true == TRUE

\* The default of transform's parameter train (line 45).
transform_default_train == FALSE

(***************************************************************************)
(* ECGDataset (lines 51-86).  Two datasets share one metadata sequence and *)
(* one preloaded store, as in the driver (lines 262, 265): ecg_data has no *)
(* transform, ecg_data_augment has transform attached.  The adapter calls  *)
(* self.transform(sig); trainMode says that the attached callable invokes  *)
(* transform with train=True instead of leaving the default.               *)
(***************************************************************************)
Datasets == {"ecg_data", "ecg_data_augment"}

HasTransform(ds) == ds = "ecg_data_augment"

\* The value of train in the call the adapter makes for dataset ds.
TrainOf(ds) == IF trainMode THEN TRUE ELSE transform_default_train

fixed_length_tensor_view(raw) == Arr(Transpose(raw.data), raw.mem, TRUE)

\* extend_ts(sig, 15000).astype('float32').T (line 67): extend_ts allocates
\* the array, astype copies it, .T is a view of the copy.
fixed_length_tensor(raw) ==
    LET ext  == extend_ts(raw.data, FixedLen)
        as32 == [i \in 1..Len(ext) |->
                    [j \in 1..Len(ext[i]) |-> astype_float32(ext[i][j])]]
    IN  Arr(Transpose(as32), "new", TRUE)

\* np.array([class_label]).astype('float32') (line 77)
label_of(entry) == <<astype_float32(Val(entry.class))>>

event_offset_truthy(entry) ==
    IF entry.af_ends = <<>> \/ entry.af_ends[1] = 0 THEN -1 ELSE entry.af_ends[1]

\* -1 if not entry['af_ends'] else entry['af_ends'][0] (line 85)
event_offset(entry) ==
    IF entry.af_ends = <<>> THEN -1 ELSE entry.af_ends[1]

list_index_wrapping(seq, idx) ==
    IF Len(seq) = 0 THEN 0 ELSE (idx % Len(seq)) + 1

\* seq[idx] on a Python list: the position read, or 0 for IndexError.
list_index(seq, idx) ==
    IF idx >= Len(seq) \/ idx < -Len(seq) THEN 0
    ELSE IF idx < 0 THEN Len(seq) + idx + 1 ELSE idx + 1

\* The store after a run of transform: an in-place write to a stored array
\* changes the store.
WriteBack(store, o) ==
    IF o.shifted /\ o.arr.mem \in DOMAIN store
    THEN [store EXCEPT ![o.arr.mem] =
            IF o.arr.transposed THEN Untranspose(o.arr.data) ELSE o.arr.data]
    ELSE store

\* __len__ (lines 58-59)
DatasetLen(ds) ==
    /\ result' = [op |-> "len", ds |-> ds, value |-> Len(metadata)]
    /\ UNCHANGED <<metadata, preloaded_data, trainMode, constructed>>
    /\ UNCHANGED <<extendVars, insertVars, loadVars, splitVars>>

\* __getitem__ (lines 61-86); target_transform is None as in the driver.
GetItem(ds, idx) ==
    LET pos == list_index(metadata, idx)
    IN  /\ IF pos = 0
           THEN /\ result' = [op |-> "getitem", ds |-> ds, idx |-> idx,
                              kind |-> "IndexError"]
                /\ UNCHANGED preloaded_data
           ELSE LET entry == metadata[pos]
                IN  IF entry.path \notin DOMAIN preloaded_data
                    THEN /\ result' = [op |-> "getitem", ds |-> ds, idx |-> idx,
                                       kind |-> "KeyError"]
                         /\ UNCHANGED preloaded_data
                    ELSE LET raw  == Arr(preloaded_data[entry.path], entry.path, FALSE)
                             base == fixed_length_tensor(raw)
                             outs == IF HasTransform(ds)
                                     THEN transform(base, TrainOf(ds))
                                     ELSE {[arr |-> base, draws |-> 0,
                                            scaled |-> FALSE, shifted |-> FALSE,
                                            offsets |-> <<>>]}
                         IN  \E o \in outs :
                                /\ result' = [op |-> "getitem", ds |-> ds,
                                              idx |-> idx, kind |-> "ok",
                                              sig |-> o.arr.data,
                                              label |-> label_of(entry),
                                              end |-> event_offset(entry),
                                              base |-> base.data,
                                              draws |-> o.draws,
                                              scaled |-> o.scaled,
                                              shifted |-> o.shifted,
                                              offsets |-> o.offsets]
                                /\ preloaded_data' = WriteBack(preloaded_data, o)
        /\ UNCHANGED <<metadata, trainMode, constructed>>
        /\ UNCHANGED <<extendVars, insertVars, loadVars, splitVars>>

\* Whole sample values of the recordings: small ones, and 2^24 + 1, which
\* float64 holds and float32 does not.
BigWhole == 2^F32Mantissa + 1

\* The recording stored under key k with n samples of Channels leads.
Recording(k, n) ==
    [t \in 1..n |->
        <<Val(10 * k + t), Val(IF t = 1 THEN BigWhole ELSE -(10 * k + t))>>]

\* Metadata entries: A, B and C have signals in the store, D has none.
EntryPool(n) ==
    { [path |-> "A", class |-> 1, sig_len |-> n, af_ends |-> <<0>>],
      [path |-> "B", class |-> 0, sig_len |-> FixedLen + 1 - n, af_ends |-> <<>>],
      [path |-> "C", class |-> 1, sig_len |-> FixedLen,
       af_ends |-> <<FixedLen + 3, 1>>],
      [path |-> "D", class |-> 0, sig_len |-> 1, af_ends |-> <<>>] }

StoreOf(n) ==
    [k \in {"A", "B", "C"} |->
        IF k = "A" THEN Recording(1, n)
        ELSE IF k = "B" THEN Recording(2, FixedLen + 1 - n)
        ELSE Recording(3, FixedLen)]

SeqsUpTo(S, k) == UNION {[1..j -> S] : j \in 0..k}

ExtendIdle == ts = <<>> /\ length = 0 /\ extended = None
InsertIdle == y = <<>> /\ end_step_x = 0 /\ y_out = None
LoadIdle   == metadata_json = <<>> /\ limit = <<>> /\ loaded = None
SplitIdle  == pc = "idle" /\ train_aug = <<>> /\ val = <<>> /\ test = <<>>
DatasetIdle ==
    /\ metadata = <<>> /\ preloaded_data = <<>> /\ trainMode = FALSE
    /\ result = [op |-> "none"] /\ constructed = None

\* ECGDataset.__init__ (lines 52-56) for both datasets of the driver.
InitDataset(modes, maxEntries) ==
    /\ \E n \in 0..(FixedLen + 1) :
          /\ metadata \in SeqsUpTo(EntryPool(n), maxEntries)
          /\ preloaded_data = StoreOf(n)
    /\ trainMode \in modes
    /\ result = [op |-> "none"]
    /\ constructed = [metadata |-> metadata, preloaded_data |-> preloaded_data]
    /\ ExtendIdle /\ InsertIdle /\ LoadIdle /\ SplitIdle

NextDataset ==
    \/ \E ds \in Datasets : DatasetLen(ds)
    \/ \E ds \in Datasets :
          \E idx \in (-(Len(metadata) + 1))..(Len(metadata) + 1) : GetItem(ds, idx)

\* The datasets as the driver builds them: transform attached as is.
Init == InitDataset({FALSE}, MaxEntries)
Spec == Init /\ [][NextDataset]_vars

\* Datasets of at most one entry, with the transform attached in either mode.
InitTrain == InitDataset(BOOLEAN, 1)
SpecTrain == InitTrain /\ [][NextDataset]_vars

(***************************************************************************)
(* extend_ts called on its own (lines 110-114)                             *)
(***************************************************************************)
\* Rows of a raw signal: Channels lead values each.
RowPool == { <<Val(0), Val(0)>>, <<Val(1), Val(2)>>, <<Val(2), Val(1)>>,
             <<Val(BigWhole), Val(-1)>> }

InitExtend ==
    /\ ts \in SeqsUpTo(RowPool, MaxSamples)
    /\ length \in (-1)..MaxTargetLen
    /\ extended = None
    /\ DatasetIdle /\ InsertIdle /\ LoadIdle /\ SplitIdle

\* np.zeros refuses a negative dimension; otherwise the call returns.
ExtendTs ==
    /\ extended = None
    /\ extended' = IF length < 0
                   THEN [op |-> "extend_ts", kind |-> "ValueError"]
                   ELSE [op |-> "extend_ts", kind |-> "ok",
                         value |-> extend_ts(ts, length)]
    /\ UNCHANGED <<ts, length>>
    /\ UNCHANGED <<datasetVars, insertVars, loadVars, splitVars>>

SpecExtend == InitExtend /\ [][ExtendTs]_vars

(***************************************************************************)
(* insert_ones (lines 88-108)                                              *)
(***************************************************************************)
\* The vector after the loop of lines 104-106; code index i is position i + 1.
insert_ones(yv, x) ==
    LET end_step_y == int_trunc(x * LabelSteps, InputSteps)
    IN  [p \in 1..Len(yv) |->
            IF p - 1 >= 0 /\ p - 1 < end_step_y + 1 THEN 1 ELSE yv[p]]

\* Event offsets: around the sentinel -1, around the first step boundaries,
\* and beyond the input length.
EndSteps == (-31)..46 \cup {InputSteps - 1, InputSteps, InputSteps + 5000}

InitInsert ==
    /\ \E n \in 0..MaxTy : y = [p \in 1..n |-> 0]
    /\ end_step_x \in EndSteps
    /\ y_out = None
    /\ DatasetIdle /\ ExtendIdle /\ LoadIdle /\ SplitIdle

\* y is written in place and returned.
InsertOnes ==
    /\ y_out = None
    /\ y' = insert_ones(y, end_step_x)
    /\ y_out' = [op |-> "insert_ones", kind |-> "ok", value |-> y']
    /\ UNCHANGED end_step_x
    /\ UNCHANGED <<datasetVars, extendVars, loadVars, splitVars>>

SpecInsert == InitInsert /\ [][InsertOnes]_vars

(***************************************************************************)
(* get_preloaded_data (lines 212-221)                                      *)
(***************************************************************************)
keep_entry_all(x) == TRUE

\* The filter of line 214.
keep_entry(x) == x.class # ExcludedClass

\* seq[:k] on a Python list.
py_slice_to(seq, k) ==
    LET n == IF k >= 0 THEN Min(k, Len(seq))
             ELSE IF Len(seq) + k > 0 THEN Len(seq) + k ELSE 0
    IN  SubSeq(seq, 1, n)

\* wfdb.rdsamp(record_name, sampto=k): the first k samples of the recording,
\* which has sig_len samples.
rdsamp(entry, k) == Recording(Len(entry.path), Min(k, entry.sig_len))

\* The entries the loop of line 218 reads.
loop_entries(md, lim) == py_slice_to(md, lim)

loaded_metadata_unsliced(md, lim) == md

\* The metadata returned at line 221.
loaded_metadata(md, lim) == py_slice_to(md, lim)

\* preloaded_data after the loop: a later entry overwrites an earlier one
\* with the same path.
RECURSIVE preload(_, _)
preload(entries, store) ==
    IF entries = <<>> THEN store
    ELSE LET entry == Head(entries)
             sig   == rdsamp(entry, Min(sampto, entry.sig_len))
         IN  preload(Tail(entries),
                     [k \in DOMAIN store \cup {entry.path} |->
                         IF k = entry.path THEN sig ELSE store[k]])

get_preloaded_data(json, lim) ==
    LET md == SelectSeq(json, keep_entry)
        l  == IF lim = <<>> THEN Len(md) ELSE lim[1]
    IN  [op |-> "get_preloaded_data",
         metadata |-> loaded_metadata(md, l),
         preloaded_data |-> preload(loop_entries(md, l), <<>>)]

\* The values of the metadata mapping: record i has the path of i letters.
PathOf(i) == [j \in 1..i |-> "r"]

JsonPool ==
    UNION { [1..n -> [class : 0..ExcludedClass,
                      sig_len : {1, sampto, sampto + 1}]]
            : n \in 0..MaxRecords }

InitLoad ==
    /\ \E js \in JsonPool :
          metadata_json = [i \in 1..Len(js) |->
                              [path |-> PathOf(i), class |-> js[i].class,
                               sig_len |-> js[i].sig_len, af_ends |-> <<>>]]
    /\ limit \in {<<>>} \cup {<<k>> : k \in 0..(MaxRecords + 1)}
    /\ loaded = None
    /\ DatasetIdle /\ ExtendIdle /\ InsertIdle /\ SplitIdle

GetPreloadedData ==
    /\ loaded = None
    /\ loaded' = get_preloaded_data(metadata_json, limit)
    /\ UNCHANGED <<metadata_json, limit>>
    /\ UNCHANGED <<datasetVars, extendVars, insertVars, splitVars>>

SpecLoad == InitLoad /\ [][GetPreloadedData]_vars

(***************************************************************************)
(* The driver's split (lines 223-227, 262-266)                             *)
(***************************************************************************)
\* int(percent * n) with percent given in tenths.  The float product 0.7 * n
\* or 0.2 * n truncates to this integer for every n below 90 (at n = 90 the
\* float product is 62.99999999999999).
int_percent(tenths, n) == int_trunc(tenths * n, 10)

\* torch.randperm(n): the orders of the indices 0..n-1.
Perms(n) ==
    { f \in [1..n -> 0..(n - 1)] : \A i, j \in 1..n : i # j => f[i] # f[j] }

\* random_split(dataset, [a, b, c]) under the permutation perm.
random_split(perm, a, b, c) ==
    << SubSeq(perm, 1, a), SubSeq(perm, a + 1, a + b),
       SubSeq(perm, a + b + 1, a + b + c) >>

get_train_test_split(n, perm) ==
    LET m_train == int_percent(7, n)
        m_val   == int_percent(2, n)
        m_test  == n - m_train - m_val
    IN  random_split(perm, m_train, m_val, m_test)

InitSplit ==
    /\ \E n \in 0..MaxItems :
          metadata = [i \in 1..n |->
                         [path |-> PathOf(i), class |-> 0, sig_len |-> 1,
                          af_ends |-> <<>>]]
    /\ preloaded_data = <<>> /\ trainMode = FALSE
    /\ result = [op |-> "none"] /\ constructed = None
    /\ pc = "augment" /\ train_aug = <<>> /\ val = <<>> /\ test = <<>>
    /\ ExtendIdle /\ InsertIdle /\ LoadIdle

\* Lines 262-263: train_aug, _, _ = get_train_test_split(ecg_data_augment, ...)
SplitAugment ==
    /\ pc = "augment"
    /\ \E perm \in Perms(Len(metadata)) :
          train_aug' = get_train_test_split(Len(metadata), perm)[1]
    /\ pc' = "plain"
    /\ UNCHANGED <<val, test>>
    /\ UNCHANGED <<datasetVars, extendVars, insertVars, loadVars>>

\* Lines 265-266: _, val, test = get_train_test_split(ecg_data, ...)
SplitPlain ==
    /\ pc = "plain"
    /\ \E perm \in Perms(Len(metadata)) :
          LET parts == get_train_test_split(Len(metadata), perm)
          IN  val' = parts[2] /\ test' = parts[3]
    /\ pc' = "done"
    /\ UNCHANGED train_aug
    /\ UNCHANGED <<datasetVars, extendVars, insertVars, loadVars>>

SpecSplit == InitSplit /\ [][SplitAugment \/ SplitPlain]_vars

(***************************************************************************)
(* Claims about the dataset adapter                                        *)
(***************************************************************************)
IsGet == result.op = "getitem"
IsOk  == IsGet /\ result.kind = "ok"

\* The entry a successful or KeyError call indexed.
ResultEntry ==
    metadata[IF result.idx < 0 THEN Len(metadata) + result.idx + 1
             ELSE result.idx + 1]

\* What the claims say of the tensor: channel-first, FixedLen columns, the
\* first samples of raw (each converted by conv), zero after them.
TensorIs(sig, raw, conv(_)) ==
    /\ Len(sig) = Channels
    /\ \A c \in 1..Channels :
          /\ Len(sig[c]) = FixedLen
          /\ \A t \in 1..FixedLen :
                sig[c][t] = IF t <= Min(FixedLen, Len(raw))
                            THEN conv(raw[t][c]) ELSE Zero

Same(x) == x
ToFloat32(x) == <<RoundF32(x[1]), 0>>

LabelAndEndAreRight(e) ==
    /\ result.label = <<Val(e.class)>>
    /\ result.end = IF Len(e.af_ends) = 0 THEN -1 ELSE e.af_ends[1]

PlainCallInRange ==
    /\ IsGet /\ result.ds = "ecg_data"
    /\ result.idx >= 0 /\ result.idx < Len(metadata)
    /\ metadata[result.idx + 1].path \in DOMAIN preloaded_data

\* C2 as stated: with no transforms attached and 0 <= idx < length(), the
\* call returns (sig, label, end) with sig[c][t] = raw[t][c] for
\* t < min(15000, raw length) and 0 otherwise, label = [class], end = -1 for
\* an empty af_ends and af_ends[0] otherwise.
C2_Original ==
    PlainCallInRange =>
        /\ result.kind = "ok"
        /\ TensorIs(result.sig, preloaded_data[ResultEntry.path], Same)
        /\ LabelAndEndAreRight(ResultEntry)

\* C2 amended: the same, with sig[c][t] equal to raw[t][c] converted to
\* single precision (float32), which differs from raw[t][c] when raw[t][c]
\* is not a float32 value.
C2_Theorem ==
    PlainCallInRange =>
        /\ result.kind = "ok"
        /\ TensorIs(result.sig, preloaded_data[ResultEntry.path], ToFloat32)
        /\ LabelAndEndAreRight(ResultEntry)

\* C2 witness: a call on a recording longer than the tensor whose first AF
\* end offset is 0 returned end = 0.
C2_Witness ==
    /\ PlainCallInRange /\ result.kind = "ok"
    /\ Len(preloaded_data[ResultEntry.path]) > FixedLen
    /\ ResultEntry.af_ends # <<>> /\ ResultEntry.af_ends[1] = 0
    /\ result.end = 0

NoPartialResult == DOMAIN result = {"op", "ds", "idx", "kind"}

StoreAndMetadataUnchanged ==
    /\ metadata = constructed.metadata
    /\ preloaded_data = constructed.preloaded_data

\* C3 as stated: __getitem__ ends in an error in exactly these cases:
\* IndexOutOfRange for every idx >= length(), KeyNotFound whenever the indexed
\* entry's path is not a key of the store; the metadata and the store are
\* left unchanged and no partial result is returned.
C3_Original ==
    IsGet =>
        /\ (result.kind = "IndexError") = (result.idx >= Len(metadata))
        /\ (result.kind = "KeyError") =
              (/\ result.idx < Len(metadata)
               /\ ResultEntry.path \notin DOMAIN preloaded_data)
        /\ result.kind \in {"IndexError", "KeyError", "ok"}
        /\ (result.kind # "ok" => NoPartialResult /\ StoreAndMetadataUnchanged)

\* C3 amended: IndexOutOfRange exactly for idx >= length() and for
\* idx < -length(); an index -length() <= idx < 0 reads entry length() + idx;
\* KeyNotFound exactly when the entry read has a path that is not a key of the
\* store; in both cases metadata and store are unchanged and nothing partial
\* is returned.
C3_Theorem ==
    IsGet =>
        LET n == Len(metadata)
            inRange == result.idx < n /\ result.idx >= -n
        IN  /\ (result.kind = "IndexError") = ~inRange
            /\ (result.kind = "KeyError") =
                  (inRange /\ ResultEntry.path \notin DOMAIN preloaded_data)
            /\ result.kind \in {"IndexError", "KeyError", "ok"}
            /\ (result.kind # "ok" => NoPartialResult /\ StoreAndMetadataUnchanged)

\* C3 witness: a call with a valid index whose entry has no stored signal
\* ended in KeyNotFound.
C3_Witness ==
    /\ IsGet /\ result.kind = "KeyError"
    /\ result.idx >= 0 /\ result.idx < Len(metadata)

\* C4: after any sequence of __len__ and __getitem__ calls, with or without
\* a transform and in either mode, the metadata and every stored raw signal
\* equal their values at construction, and length() is the number of entries
\* passed at construction.
C4_Theorem ==
    /\ StoreAndMetadataUnchanged
    /\ (result.op = "len" => result.value = Len(constructed.metadata))

\* C4 witness: a training-mode call in which shift wrote a non-zero offset
\* into its argument in place has returned.
C4_Witness ==
    /\ IsOk /\ result.shifted /\ ~result.scaled
    /\ \E j \in 1..Len(result.offsets) : result.offsets[j] # 0

\* C7 as stated: in every invocation of shift, also the one transform makes
\* on the adapter's channel-first tensor, each channel receives one integer
\* offset from [-interval, interval) and offset/1000 is added to every sample
\* of the channel: the bias is the same at all time steps of a channel.
C7_Original ==
    (IsOk /\ result.shifted /\ ~result.scaled) =>
        \A c \in 1..Channels :
            \E k \in (-DefaultInterval)..(DefaultInterval - 1) :
                \A t \in 1..FixedLen :
                    result.sig[c][t] =
                        <<result.base[c][t][1], result.base[c][t][2] + k>>

EvalCall == IsOk /\ (result.ds = "ecg_data" \/ ~trainMode)

\* C8: in evaluation mode transform returns the signal unchanged and draws
\* nothing from the random source, so every call on an index of a dataset
\* with no transform, or with transform invoked with the signal alone,
\* returns the same triple, a function of the index and of the data given at
\* construction, whatever calls were made before it.
C8_Theorem ==
    EvalCall =>
        LET e == constructed.metadata[IF result.idx < 0
                                      THEN Len(constructed.metadata) + result.idx + 1
                                      ELSE result.idx + 1]
        IN  /\ result.draws = 0
            /\ result.sig = result.base
            /\ TensorIs(result.sig, constructed.preloaded_data[e.path], ToFloat32)
            /\ LabelAndEndAreRight(e)

\* C8 witness: a call on the dataset with transform attached, invoked with
\* the signal alone, returned the tensor of a non-empty recording.
C8_Witness ==
    /\ IsOk /\ result.ds = "ecg_data_augment" /\ ~trainMode
    /\ Len(constructed.preloaded_data[ResultEntry.path]) > 0

(***************************************************************************)
(* Claims about the functions called on their own                          *)
(***************************************************************************)
ZeroRow == [j \in 1..Channels |-> Zero]

\* C1: for every raw signal of n >= 0 rows and every target length L >= 0,
\* extend_ts(ts, L) succeeds and returns L rows of Channels values, row i
\* equal to input row i for i < min(L, n) and all zero for min(L, n) <= i < L;
\* an input of exactly L rows comes back with identical contents.
C1_Theorem ==
    (extended # None /\ length >= 0) =>
        /\ extended.kind = "ok"
        /\ Len(extended.value) = length
        /\ \A i \in 1..length :
              /\ Len(extended.value[i]) = Channels
              /\ extended.value[i] =
                    IF i <= Min(length, Len(ts)) THEN ts[i] ELSE ZeroRow
        /\ (Len(ts) = length => extended.value = ts)

\* C1 witness: a signal longer than the target length, with a non-zero row
\* beyond it, was truncated.
C1_Witness ==
    /\ extended # None /\ length >= 1 /\ Len(ts) > length
    /\ ts[length + 1] # ZeroRow
    /\ extended.kind = "ok"

\* C9 as stated: for every integer event offset end_step_x and every all-zero
\* vector y, insert_ones(y, end_step_x) returns y with y[i] = 1 exactly for
\* the indices 0 <= i <= floor(end_step_x * 1000 / 15000) with i < n, and
\* 0 elsewhere.
C9_Original ==
    y_out # None =>
        /\ y_out.kind = "ok"
        /\ Len(y_out.value) = Len(y)
        /\ \A i \in 0..(Len(y) - 1) :
              y_out.value[i + 1] =
                  IF 0 <= i /\ i <= (end_step_x * LabelSteps) \div InputSteps
                  THEN 1 ELSE 0

IsSubsequence(sub, seq) ==
    \E f \in [1..Len(sub) -> 1..Len(seq)] :
        /\ \A i \in 1..Len(sub) : sub[i] = seq[f[i]]
        /\ \A i, j \in 1..Len(sub) : i < j => f[i] < f[j]

\* C5: for every metadata mapping and every limit (None, 0 or positive), the
\* metadata returned by get_preloaded_data has no entry of class 2, holds
\* only entries of the input in their original relative order, and has at
\* most limit entries when a limit is given.
C5_Theorem ==
    loaded # None =>
        /\ \A i \in 1..Len(loaded.metadata) :
              loaded.metadata[i].class # ExcludedClass
        /\ IsSubsequence(loaded.metadata, metadata_json)
        /\ (limit # <<>> => Len(loaded.metadata) <= limit[1])

\* C5 witness: the input had an entry of class 2 before a kept one, and a
\* limit below the number of kept entries cut the result.
C5_Witness ==
    /\ loaded # None /\ limit # <<>>
    /\ Len(metadata_json) >= 2
    /\ metadata_json[1].class = ExcludedClass
    /\ Len(loaded.metadata) = limit[1] /\ limit[1] >= 1
    /\ Len(SelectSeq(metadata_json, LAMBDA x : x.class # ExcludedClass)) > limit[1]

\* C6: every entry of the returned metadata has its path as a key of the
\* returned store, and the signal stored for it has at most
\* min(50000, entry.sig_len) samples.
C6_Theorem ==
    loaded # None =>
        \A i \in 1..Len(loaded.metadata) :
            LET e == loaded.metadata[i]
            IN  /\ e.path \in DOMAIN loaded.preloaded_data
                /\ Len(loaded.preloaded_data[e.path]) <= Min(sampto, e.sig_len)

\* C6 witness: a kept entry longer than the cap was stored, and a limit left
\* a later kept entry out of both the metadata and the store.
C6_Witness ==
    /\ loaded # None /\ limit = <<1>>
    /\ Len(loaded.metadata) = 1
    /\ loaded.metadata[1].sig_len > sampto
    /\ Len(loaded.preloaded_data[loaded.metadata[1].path]) = sampto
    /\ Len(SelectSeq(metadata_json, LAMBDA x : x.class # ExcludedClass)) > 1
    /\ Cardinality(DOMAIN loaded.preloaded_data) = 1

Range(f) == {f[i] : i \in DOMAIN f}

\* C10 as stated: the three subsets the driver uses have sizes int(0.7*N),
\* int(0.2*N) and N minus those two, all non-negative and summing to N, and
\* the recordings of the training subset are disjoint from those of the
\* validation subset and from those of the test subset.
C10_Original ==
    pc = "done" =>
        LET n == Len(metadata)
        IN  /\ Len(train_aug) = (7 * n) \div 10
            /\ Len(val) = (2 * n) \div 10
            /\ Len(test) = n - Len(train_aug) - Len(val)
            /\ Len(test) >= 0
            /\ Range(train_aug) \cap Range(val) = {}
            /\ Range(train_aug) \cap Range(test) = {}

====
